---- MODULE Spec2Model ----
(***************************************************************************)
(* Model of upgradeplanner.py: the Snyk scan invoker, the vulnerability    *)
(* classifier, the two prompt builders, the Gemini query client with its   *)
(* single retry, and main(), which sequences them.                         *)
(*                                                                         *)
(* Python values are modelled as follows.  A dict is a TLA+ record whose   *)
(* DOMAIN is the set of keys present (the empty dict is <<>>); a list is a *)
(* sequence; the value of snyk_results / snyk_data, which can be None, a   *)
(* dict or a list, carries its Python type in a wrapper record.  A string  *)
(* built by an f-string is a record of the parts that were interpolated.   *)
(***************************************************************************)
EXTENDS Integers, Sequences, FiniteSets, TLC

VARIABLES
    pc,                      \* position of main()
    api_key,                 \* main: os.environ.get("GOOGLE_API_KEY")
    project_path_to_scan,    \* main: the operator's input()
    snyk_results,            \* main: value returned by run_snyk_scan
    fixable,                 \* main: first list of process_snyk_results
    unfixable,               \* main: second list of process_snyk_results
    upgrade_plan,            \* main: result of the upgrade-plan query
    replacement_suggestions, \* main: result of the replacement query
    ai,                      \* the get_ai_response invocation in progress
    console,                 \* everything print() has written
    scan_calls,              \* number of run_snyk_scan invocations
    classify_calls,          \* number of process_snyk_results invocations
    prompt_calls,            \* create_*_prompt invocations: <<[fn, arg]>>
    ai_log,                  \* get_ai_response invocations of main, finished
    call,                    \* a function applied on its own: [fn, arg]
    ret                      \* the value that application returned

vars == <<pc, api_key, project_path_to_scan, snyk_results, fixable, unfixable,
          upgrade_plan, replacement_suggestions, ai, console, scan_calls,
          classify_calls, prompt_calls, ai_log, call, ret>>

mainVars == <<pc, api_key, project_path_to_scan, snyk_results, fixable,
              unfixable, upgrade_plan, replacement_suggestions, scan_calls,
              classify_calls, prompt_calls, ai_log>>

(***************************************************************************)
(* Bounds of the input sets.                                               *)
(***************************************************************************)
MaxPathLen == 3      \* longest upgradePath of a record
MaxVulns == 3        \* records in a scan result given to a function alone
MaxScanVulns == 2    \* records in a scan result the scanner hands to main
MaxItems == 2        \* subprojects in a monorepo scan result

(***************************************************************************)
(* Python values.                                                          *)
(***************************************************************************)
None == [type |-> "NoneType", value |-> <<>>]
Unset == [type |-> "unset", value |-> <<>>]
PyDict(d) == [type |-> "dict", value |-> d]
PyList(l) == [type |-> "list", value |-> l]
\* The value a finished call returned.
Value(v) == [type |-> "returned", value |-> v]

\* dict.get(key, default)
Get(d, key, default) == IF key \in DOMAIN d THEN d[key] ELSE default

SeqsUpTo(S, n) == UNION {[1..m -> S] : m \in 0..n}

RECURSIVE Flatten(_)
Flatten(ss) == IF ss = <<>> THEN <<>> ELSE Head(ss) \o Flatten(Tail(ss))

(***************************************************************************)
(* Vulnerability records as the scanner reports them.  upgradePath is      *)
(* either absent or a list of 0..MaxPathLen version identifiers.           *)
(***************************************************************************)
PackageNames == {"lodash"}
Versions == <<"false", "lodash@4.17.21", "lodash@5.0.0", "lodash@6.0.0", "lodash@7.0.0">>
UpgradePaths == {SubSeq(Versions, 1, n) : n \in 0..MaxPathLen}

VulnRecords ==
    {[packageName |-> p, version |-> "4.0.0", title |-> "Prototype Pollution",
      severity |-> "high"] : p \in PackageNames}
    \cup
    {[packageName |-> p, version |-> "4.0.0", title |-> "Prototype Pollution",
      severity |-> "high", upgradePath |-> u] : p \in PackageNames, u \in UpgradePaths}

VulnLists(n) == SeqsUpTo(VulnRecords, n)

\* The ways of cutting `total' records into at most k consecutive runs:
\* the run lengths.
RECURSIVE SumTo(_, _)
SumTo(lens, j) == IF j = 0 THEN 0 ELSE lens[j] + SumTo(lens, j - 1)

RunLengths(total, k) ==
    UNION {{lens \in [1..m -> 0..total] : SumTo(lens, m) = total} : m \in 0..k}

\* The subprojects of a monorepo result: the records vs cut into runs, one
\* run per subproject; a subproject without records comes with an empty
\* 'vulnerabilities' list or, when ~keyed, without the key.
Subprojects(vs, lens, keyed) ==
    [j \in 1..Len(lens) |->
        IF lens[j] = 0 /\ ~keyed THEN <<>>
        ELSE [vulnerabilities |-> SubSeq(vs, SumTo(lens, j - 1) + 1, SumTo(lens, j))]]

\* Parsed scanner output: a single project (a dict that may also carry
\* the scanner's other keys, here 'ok') or a list of subprojects.
ScanDocs(n) ==
    {PyDict(<<>>), PyDict([ok |-> FALSE])}
    \cup {PyDict([vulnerabilities |-> vs]) : vs \in VulnLists(n)}
    \cup {PyDict([vulnerabilities |-> vs, ok |-> FALSE]) : vs \in VulnLists(n)}
    \cup UNION {{PyList(Subprojects(vs, lens, keyed)) :
                    lens \in RunLengths(Len(vs), MaxItems), keyed \in BOOLEAN} :
                vs \in VulnLists(n)}

(***************************************************************************)
(* run_snyk_scan.  The subprocess is the input: whether the snyk           *)
(* executable exists, its exit code and what it wrote to stdout.  stdout   *)
(* is text: empty, text that is not JSON, or the JSON text of a document   *)
(* (of a scan result, or the JSON literal null).                           *)
(***************************************************************************)
JsonText(doc) == [text |-> "json", of |-> doc]
EmptyText == [text |-> "", of |-> None]
GarbageText == [text |-> "not json", of |-> None]

Stdouts(n) == {EmptyText, GarbageText, JsonText(None)} \cup {JsonText(d) : d \in ScanDocs(n)}
ReturnCodes == {0, 1}

\* json.loads
json_loads(s) ==
    IF s.text = "json" THEN [raised |-> "none", value |-> s.of]
    ELSE [raised |-> "JSONDecodeError", value |-> None]

Line(tag) == [line |-> tag, body |-> <<>>]

\* run_snyk_scan treating every non-zero exit code as a failure.
run_snyk_scan_checked(found, returncode, stdout) ==
    LET banner == <<Line("Running Snyk scan")>>
    IN  IF ~found
        THEN [value |-> None, printed |-> banner \o <<Line("snyk command not found")>>]
        ELSE IF returncode # 0
        THEN [value |-> None, printed |-> banner \o <<Line("Snyk command failed")>>]
        ELSE IF json_loads(stdout).raised = "JSONDecodeError"
        THEN [value |-> None, printed |-> banner \o <<Line("Failed to decode Snyk's JSON output")>>]
        ELSE [value |-> json_loads(stdout).value, printed |-> banner]

\* Returns the value returned and the lines printed.
run_snyk_scan(found, returncode, stdout) ==
    LET banner == <<Line("Running Snyk scan")>>
    IN  IF ~found
        THEN [value |-> None, printed |-> banner \o <<Line("snyk command not found")>>]
        ELSE IF returncode # 0 /\ stdout.text = ""
        THEN [value |-> None, printed |-> banner \o <<Line("Snyk command failed")>>]
        ELSE IF json_loads(stdout).raised = "JSONDecodeError"
        THEN [value |-> None, printed |-> banner \o <<Line("Failed to decode Snyk's JSON output")>>]
        ELSE [value |-> json_loads(stdout).value, printed |-> banner]

(***************************************************************************)
(* process_snyk_results.                                                   *)
(***************************************************************************)
\* Truthy as an `is not None' test: an empty dict or list passes.
TruthyUnlessNone(data) == data.type # "NoneType"

\* Python truthiness of the value of snyk_data / snyk_results.
Truthy(data) ==
    CASE data.type = "NoneType" -> FALSE
      [] data.type = "dict" -> DOMAIN data.value # {}
      [] data.type = "list" -> data.value # <<>>

\* HasUpgrade without the length test: any non-empty path counts as a fix.
HasUpgradeAnyPath(vuln) ==
    /\ "upgradePath" \in DOMAIN vuln
    /\ vuln.upgradePath # <<>>

\* vuln.get('upgradePath') and len(vuln['upgradePath']) > 1
HasUpgrade(vuln) ==
    /\ "upgradePath" \in DOMAIN vuln
    /\ vuln.upgradePath # <<>>
    /\ Len(vuln.upgradePath) > 1

\* [vuln for item in snyk_data for vuln in item.get('vulnerabilities', [])]
RECURSIVE AllVulnerabilities(_)
AllVulnerabilities(items) ==
    IF items = <<>> THEN <<>>
    ELSE Get(Head(items), "vulnerabilities", <<>>) \o AllVulnerabilities(Tail(items))

\* The for loop: one record at a time, appended to one of the two lists.
RECURSIVE Partition(_, _, _)
Partition(vulnerabilities, fixable_vulns, unfixable_vulns) ==
    IF vulnerabilities = <<>>
    THEN <<fixable_vulns, unfixable_vulns>>
    ELSE IF HasUpgrade(Head(vulnerabilities))
    THEN Partition(Tail(vulnerabilities), Append(fixable_vulns, Head(vulnerabilities)), unfixable_vulns)
    ELSE Partition(Tail(vulnerabilities), fixable_vulns, Append(unfixable_vulns, Head(vulnerabilities)))

process_snyk_results(snyk_data) ==
    IF ~Truthy(snyk_data)
    THEN <<<<>>, <<>>>>
    ELSE IF snyk_data.type = "list"
    THEN Partition(AllVulnerabilities(snyk_data.value), <<>>, <<>>)
    ELSE Partition(Get(snyk_data.value, "vulnerabilities", <<>>), <<>>, <<>>)

(***************************************************************************)
(* The prompt builders.  A prompt is the template it was rendered from and *)
(* the detail blocks interpolated into it; an exception raised while       *)
(* building it is reported in `raised'.                                    *)
(***************************************************************************)
EmptyPrompt == [template |-> "", details |-> <<>>]

\* vuln.get('upgradePath', ['N/A'])[1]
SuggestedUpgrade(vuln) ==
    LET path == Get(vuln, "upgradePath", <<"N/A">>)
    IN  IF Len(path) >= 2
        THEN [raised |-> "none", value |-> path[2]]
        ELSE [raised |-> "IndexError", value |-> "IndexError"]

RECURSIVE UpgradeDetails(_)
UpgradeDetails(vulnerabilities) ==
    IF vulnerabilities = <<>> THEN [raised |-> "none", value |-> <<>>]
    ELSE LET vuln == Head(vulnerabilities)
             upgrade == SuggestedUpgrade(vuln)
             rest == UpgradeDetails(Tail(vulnerabilities))
         IN  IF upgrade.raised # "none" THEN [raised |-> upgrade.raised, value |-> <<>>]
             ELSE IF rest.raised # "none" THEN rest
             ELSE [raised |-> "none",
                   value |-> <<[Package |-> Get(vuln, "packageName", "None"),
                                CurrentVersion |-> Get(vuln, "version", "None"),
                                SuggestedUpgrade |-> upgrade.value,
                                Severity |-> Get(vuln, "severity", "None")]>> \o rest.value]

create_upgrade_prompt(vulnerabilities) ==
    LET prompt_details == UpgradeDetails(vulnerabilities)
    IN  IF prompt_details.raised # "none"
        THEN [raised |-> prompt_details.raised, value |-> EmptyPrompt]
        ELSE [raised |-> "none",
              value |-> [template |-> "upgrade plan", details |-> prompt_details.value]]

RECURSIVE ReplacementDetails(_)
ReplacementDetails(vulnerabilities) ==
    IF vulnerabilities = <<>> THEN <<>>
    ELSE LET vuln == Head(vulnerabilities)
         IN  <<[Package |-> Get(vuln, "packageName", "None"),
                Vulnerability |-> Get(vuln, "title", "None"),
                Severity |-> Get(vuln, "severity", "None")]>>
             \o ReplacementDetails(Tail(vulnerabilities))

create_replacement_prompt(vulnerabilities) ==
    [raised |-> "none",
     value |-> [template |-> "replacement suggestions",
                details |-> ReplacementDetails(vulnerabilities)]]

(***************************************************************************)
(* get_ai_response.  One invocation is a small state machine: the first    *)
(* generate_content call, and the retry that follows a ResourceExhausted.  *)
(* What the endpoint answers to a call is the input of that step.          *)
(***************************************************************************)
Texts == {"# Plan A", "# Plan B"}
Responses ==
    {[kind |-> "ok", text |-> t] : t \in Texts}
    \cup {[kind |-> "ResourceExhausted", text |-> "429 quota exceeded"],
          [kind |-> "Exception", text |-> "connection reset"]}

RetryDelay == 30

AIIdle == [pc |-> "idle", prompt |-> EmptyPrompt, calls |-> <<>>, slept |-> 0, ret |-> Unset]
BeginQuery(prompt) ==
    [pc |-> "FirstAttempt", prompt |-> prompt, calls |-> <<>>, slept |-> 0, ret |-> Unset]
Returned(kind, body) == [kind |-> kind, body |-> body]

\* FirstAttemptResult retrying after any failure, not only a rate limit.
FirstAttemptRetriesAnyFailure(q, response) ==
    LET called == [q EXCEPT !.calls = Append(q.calls, response)]
    IN  IF response.kind = "ok"
        THEN [called EXCEPT !.pc = "returned", !.ret = Returned("text", response.text)]
        ELSE [called EXCEPT !.pc = "RetryAttempt", !.slept = q.slept + RetryDelay]

\* The state of the invocation after the first attempt got `response'.
FirstAttemptResult(q, response) ==
    LET called == [q EXCEPT !.calls = Append(q.calls, response)]
    IN  CASE response.kind = "ok" ->
               [called EXCEPT !.pc = "returned", !.ret = Returned("text", response.text)]
          [] response.kind = "ResourceExhausted" ->
               [called EXCEPT !.pc = "RetryAttempt", !.slept = q.slept + RetryDelay]
          [] OTHER ->
               [called EXCEPT !.pc = "returned",
                              !.ret = Returned("An unexpected error occurred", response.text)]

\* RetryAttemptResult reporting the first attempt's exception on failure.
RetryAttemptReportsFirstCause(q, response) ==
    LET called == [q EXCEPT !.calls = Append(q.calls, response)]
    IN  IF response.kind = "ok"
        THEN [called EXCEPT !.pc = "returned", !.ret = Returned("text", response.text)]
        ELSE [called EXCEPT !.pc = "returned", !.ret = Returned("Error on retry", q.calls[1].text)]

\* The state of the invocation after the retry got `response'.
RetryAttemptResult(q, response) ==
    LET called == [q EXCEPT !.calls = Append(q.calls, response)]
    IN  IF response.kind = "ok"
        THEN [called EXCEPT !.pc = "returned", !.ret = Returned("text", response.text)]
        ELSE [called EXCEPT !.pc = "returned", !.ret = Returned("Error on retry", response.text)]

AIFirstAttempt ==
    /\ ai.pc = "FirstAttempt"
    /\ IF ai.prompt.template = ""
       THEN /\ ai' = [ai EXCEPT !.pc = "returned",
                                !.ret = Returned("Prompt could not be created.", "")]
            /\ UNCHANGED console
       ELSE \E response \in Responses :
               /\ ai' = FirstAttemptResult(ai, response)
               /\ console' = console \o <<Line("Asking Gemini for insights")>> \o
                     (IF response.kind = "ResourceExhausted"
                      THEN <<Line("Rate limit hit. Waiting for 30 seconds"), Line("retrying")>>
                      ELSE <<>>)
    /\ UNCHANGED <<mainVars, call, ret>>

AIRetryAttempt ==
    /\ ai.pc = "RetryAttempt"
    /\ \E response \in Responses : ai' = RetryAttemptResult(ai, response)
    /\ UNCHANGED <<mainVars, console, call, ret>>

(***************************************************************************)
(* main.                                                                   *)
(***************************************************************************)
\* A string local of main that has not been assigned yet.
Unassigned == "<unassigned>"
ApiKeys == {"", "AIza-key"}
\* What the operator can type: nothing, a path that is not a directory
\* (a file, or nothing at all), a directory.
InputPaths == {"", "/srv/app/package.json", "/srv/missing", "/srv/app"}
isdir(path) == path = "/srv/app"

\* load_dotenv, the credential check, genai.configure
LoadCredential ==
    /\ pc = "load_credential"
    /\ \E key \in ApiKeys :
          /\ api_key' = key
          /\ IF key = ""
             THEN /\ console' = Append(console, Line("Please set the GOOGLE_API_KEY"))
                  /\ pc' = "done"
             ELSE /\ UNCHANGED console
                  /\ pc' = "input_path"
    /\ UNCHANGED <<project_path_to_scan, snyk_results, fixable, unfixable, upgrade_plan,
                   replacement_suggestions, ai, scan_calls, classify_calls, prompt_calls,
                   ai_log, call, ret>>

\* input(...) and the path check
InputPath ==
    /\ pc = "input_path"
    /\ \E path \in InputPaths :
          /\ project_path_to_scan' = path
          /\ IF path = "" \/ ~isdir(path)
             THEN /\ console' = Append(console, Line("Invalid path entered"))
                  /\ pc' = "done"
             ELSE /\ UNCHANGED console
                  /\ pc' = "scan"
    /\ UNCHANGED <<api_key, snyk_results, fixable, unfixable, upgrade_plan,
                   replacement_suggestions, ai, scan_calls, classify_calls, prompt_calls,
                   ai_log, call, ret>>

\* Scan without the `if not snyk_results: return'.
ScanThenAlwaysClassify ==
    /\ pc = "scan"
    /\ \E found \in BOOLEAN, returncode \in ReturnCodes, stdout \in Stdouts(MaxScanVulns) :
          LET scan == run_snyk_scan(found, returncode, stdout)
          IN  /\ snyk_results' = scan.value
              /\ console' = console \o scan.printed
              /\ pc' = "classify"
    /\ scan_calls' = scan_calls + 1
    /\ UNCHANGED <<api_key, project_path_to_scan, fixable, unfixable, upgrade_plan,
                   replacement_suggestions, ai, classify_calls, prompt_calls, ai_log,
                   call, ret>>

\* snyk_results = run_snyk_scan(project_path_to_scan); if not snyk_results: return
Scan ==
    /\ pc = "scan"
    /\ \E found \in BOOLEAN, returncode \in ReturnCodes, stdout \in Stdouts(MaxScanVulns) :
          LET scan == run_snyk_scan(found, returncode, stdout)
          IN  /\ snyk_results' = scan.value
              /\ console' = console \o scan.printed
              /\ pc' = IF ~Truthy(scan.value) THEN "done" ELSE "classify"
    /\ scan_calls' = scan_calls + 1
    /\ UNCHANGED <<api_key, project_path_to_scan, fixable, unfixable, upgrade_plan,
                   replacement_suggestions, ai, classify_calls, prompt_calls, ai_log,
                   call, ret>>

\* Classify unpacking the pair in the wrong order.
ClassifySwapped ==
    /\ pc = "classify"
    /\ fixable' = process_snyk_results(snyk_results)[2]
    /\ unfixable' = process_snyk_results(snyk_results)[1]
    /\ classify_calls' = classify_calls + 1
    /\ pc' = "upgrade"
    /\ UNCHANGED <<api_key, project_path_to_scan, snyk_results, upgrade_plan,
                   replacement_suggestions, ai, console, scan_calls, prompt_calls,
                   ai_log, call, ret>>

\* fixable, unfixable = process_snyk_results(snyk_results)
Classify ==
    /\ pc = "classify"
    /\ fixable' = process_snyk_results(snyk_results)[1]
    /\ unfixable' = process_snyk_results(snyk_results)[2]
    /\ classify_calls' = classify_calls + 1
    /\ pc' = "upgrade"
    /\ UNCHANGED <<api_key, project_path_to_scan, snyk_results, upgrade_plan,
                   replacement_suggestions, ai, console, scan_calls, prompt_calls,
                   ai_log, call, ret>>

\* UpgradeBranch without the `if fixable' test.
UpgradeBranchAlwaysQueries ==
    /\ pc = "upgrade"
    /\ LET upgrade_prompt == create_upgrade_prompt(fixable)
       IN  /\ prompt_calls' = Append(prompt_calls, [fn |-> "create_upgrade_prompt", arg |-> fixable])
           /\ IF upgrade_prompt.raised # "none"
              THEN /\ pc' = "crashed"
                   /\ console' = Append(console, Line(upgrade_prompt.raised))
                   /\ UNCHANGED ai
              ELSE /\ pc' = "upgrade_query"
                   /\ ai' = BeginQuery(upgrade_prompt.value)
                   /\ UNCHANGED console
    /\ UNCHANGED <<api_key, project_path_to_scan, snyk_results, fixable, unfixable,
                   upgrade_plan, replacement_suggestions, scan_calls, classify_calls,
                   ai_log, call, ret>>

\* if fixable: build the prompt and enter get_ai_response; else: the notice
UpgradeBranch ==
    /\ pc = "upgrade"
    /\ IF fixable # <<>>
       THEN LET upgrade_prompt == create_upgrade_prompt(fixable)
            IN  /\ prompt_calls' = Append(prompt_calls, [fn |-> "create_upgrade_prompt", arg |-> fixable])
                /\ IF upgrade_prompt.raised # "none"
                   THEN /\ pc' = "crashed"
                        /\ console' = Append(console, Line(upgrade_prompt.raised))
                        /\ UNCHANGED ai
                   ELSE /\ pc' = "upgrade_query"
                        /\ ai' = BeginQuery(upgrade_prompt.value)
                        /\ UNCHANGED console
       ELSE /\ console' = Append(console, Line("No vulnerabilities with direct upgrade paths were found."))
            /\ pc' = "replacement"
            /\ UNCHANGED <<ai, prompt_calls>>
    /\ UNCHANGED <<api_key, project_path_to_scan, snyk_results, fixable, unfixable,
                   upgrade_plan, replacement_suggestions, scan_calls, classify_calls,
                   ai_log, call, ret>>

\* UpgradePrint ending the run when the upgrade-plan query failed.
UpgradePrintStopsOnFailure ==
    /\ pc = "upgrade_query"
    /\ ai.pc = "returned"
    /\ upgrade_plan' = ai.ret
    /\ console' = console \o <<Line("Your AI-Generated Dependency Upgrade Plan"),
                               [line |-> "upgrade_plan", body |-> ai.ret]>>
    /\ ai_log' = Append(ai_log, [for |-> "upgrade", prompt |-> ai.prompt,
                                 calls |-> ai.calls, ret |-> ai.ret])
    /\ ai' = AIIdle
    /\ pc' = IF ai.ret.kind = "text" THEN "replacement" ELSE "done"
    /\ UNCHANGED <<api_key, project_path_to_scan, snyk_results, fixable, unfixable,
                   replacement_suggestions, scan_calls, classify_calls, prompt_calls,
                   call, ret>>

\* get_ai_response returned: upgrade_plan = ...; banner; print(upgrade_plan)
UpgradePrint ==
    /\ pc = "upgrade_query"
    /\ ai.pc = "returned"
    /\ upgrade_plan' = ai.ret
    /\ console' = console \o <<Line("Your AI-Generated Dependency Upgrade Plan"),
                               [line |-> "upgrade_plan", body |-> ai.ret]>>
    /\ ai_log' = Append(ai_log, [for |-> "upgrade", prompt |-> ai.prompt,
                                 calls |-> ai.calls, ret |-> ai.ret])
    /\ ai' = AIIdle
    /\ pc' = "replacement"
    /\ UNCHANGED <<api_key, project_path_to_scan, snyk_results, fixable, unfixable,
                   replacement_suggestions, scan_calls, classify_calls, prompt_calls,
                   call, ret>>

\* if unfixable: build the prompt and enter get_ai_response; else: the notice
ReplacementBranch ==
    /\ pc = "replacement"
    /\ IF unfixable # <<>>
       THEN LET replacement_prompt == create_replacement_prompt(unfixable)
            IN  /\ prompt_calls' = Append(prompt_calls, [fn |-> "create_replacement_prompt", arg |-> unfixable])
                /\ pc' = "replacement_query"
                /\ ai' = BeginQuery(replacement_prompt.value)
                /\ UNCHANGED console
       ELSE /\ console' = Append(console, Line("All found vulnerabilities seem to have a direct upgrade path."))
            /\ pc' = "done"
            /\ UNCHANGED <<ai, prompt_calls>>
    /\ UNCHANGED <<api_key, project_path_to_scan, snyk_results, fixable, unfixable,
                   upgrade_plan, replacement_suggestions, scan_calls, classify_calls,
                   ai_log, call, ret>>

\* get_ai_response returned: replacement_suggestions = ...; banner; print
ReplacementPrint ==
    /\ pc = "replacement_query"
    /\ ai.pc = "returned"
    /\ replacement_suggestions' = ai.ret
    /\ console' = console \o <<Line("AI Suggestions for Package Replacements"),
                               [line |-> "replacement_suggestions", body |-> ai.ret]>>
    /\ ai_log' = Append(ai_log, [for |-> "replacement", prompt |-> ai.prompt,
                                 calls |-> ai.calls, ret |-> ai.ret])
    /\ ai' = AIIdle
    /\ pc' = "done"
    /\ UNCHANGED <<api_key, project_path_to_scan, snyk_results, fixable, unfixable,
                   upgrade_plan, scan_calls, classify_calls, prompt_calls, call, ret>>

MainCall == [fn |-> "main", arg |-> <<>>]

Init ==
    /\ pc = "load_credential"
    /\ api_key = Unassigned
    /\ project_path_to_scan = Unassigned
    /\ snyk_results = Unset
    /\ fixable = Unset
    /\ unfixable = Unset
    /\ upgrade_plan = Unset
    /\ replacement_suggestions = Unset
    /\ ai = AIIdle
    /\ console = <<>>
    /\ scan_calls = 0
    /\ classify_calls = 0
    /\ prompt_calls = <<>>
    /\ ai_log = <<>>
    /\ call = MainCall
    /\ ret = Unset

Next ==
    \/ LoadCredential
    \/ InputPath
    \/ Scan
    \/ Classify
    \/ UpgradeBranch
    \/ AIFirstAttempt
    \/ AIRetryAttempt
    \/ UpgradePrint
    \/ ReplacementBranch
    \/ ReplacementPrint

Spec == Init /\ [][Next]_vars

(***************************************************************************)
(* Each function applied on its own, to every argument of the bounded      *)
(* input sets: the initial state holds the pending call, one action        *)
(* applies the function.  get_ai_response runs through its two attempts.   *)
(***************************************************************************)
ScanInputs(n) ==
    [found : BOOLEAN, returncode : ReturnCodes, stdout : Stdouts(n)]

Prompts(n) ==
    {EmptyPrompt}
    \cup {create_replacement_prompt(vs).value : vs \in VulnLists(n)}
    \cup {create_upgrade_prompt(vs).value :
            vs \in {l \in VulnLists(n) : create_upgrade_prompt(l).raised = "none"}}

\* The pending call of an initial state: a function and its argument.
FunctionCall(c, n, m) ==
    \/ c \in {[fn |-> "run_snyk_scan", arg |-> i] : i \in ScanInputs(m)}
    \/ c \in {[fn |-> "get_ai_response", arg |-> p] : p \in Prompts(m)}
    \/ c \in {[fn |-> "process_snyk_results", arg |-> d] :
                d \in {None, PyDict(<<>>), PyDict([ok |-> FALSE])}}
    \/ \E vs \in VulnLists(n) :
          \/ c = [fn |-> "process_snyk_results", arg |-> PyDict([vulnerabilities |-> vs])]
          \/ c = [fn |-> "process_snyk_results",
                  arg |-> PyDict([vulnerabilities |-> vs, ok |-> FALSE])]
          \/ \E lens \in RunLengths(Len(vs), MaxItems), keyed \in BOOLEAN :
                c = [fn |-> "process_snyk_results",
                     arg |-> PyList(Subprojects(vs, lens, keyed))]
          \/ c = [fn |-> "create_upgrade_prompt", arg |-> vs]
          \/ c = [fn |-> "create_replacement_prompt", arg |-> vs]

ApplyRunSnykScan ==
    /\ call.fn = "run_snyk_scan"
    /\ ret.type = "unset"
    /\ LET scan == run_snyk_scan(call.arg.found, call.arg.returncode, call.arg.stdout)
       IN  /\ ret' = Value(scan.value)
           /\ console' = console \o scan.printed
    /\ UNCHANGED <<mainVars, ai, call>>

ApplyProcessSnykResults ==
    /\ call.fn = "process_snyk_results"
    /\ ret.type = "unset"
    /\ ret' = Value(process_snyk_results(call.arg))
    /\ UNCHANGED <<mainVars, ai, console, call>>

ApplyCreateUpgradePrompt ==
    /\ call.fn = "create_upgrade_prompt"
    /\ ret.type = "unset"
    /\ ret' = Value(create_upgrade_prompt(call.arg))
    /\ UNCHANGED <<mainVars, ai, console, call>>

ApplyCreateReplacementPrompt ==
    /\ call.fn = "create_replacement_prompt"
    /\ ret.type = "unset"
    /\ ret' = Value(create_replacement_prompt(call.arg))
    /\ UNCHANGED <<mainVars, ai, console, call>>

CallGetAiResponse ==
    /\ call.fn = "get_ai_response"
    /\ ret.type = "unset"
    /\ ai.pc = "idle"
    /\ ai' = BeginQuery(call.arg)
    /\ UNCHANGED <<mainVars, console, call, ret>>

ReturnGetAiResponse ==
    /\ call.fn = "get_ai_response"
    /\ ret.type = "unset"
    /\ ai.pc = "returned"
    /\ ret' = Value(ai.ret)
    /\ UNCHANGED <<mainVars, ai, console, call>>

FunctionInit ==
    /\ pc = "not running"
    /\ api_key = Unassigned
    /\ project_path_to_scan = Unassigned
    /\ snyk_results = Unset
    /\ fixable = Unset
    /\ unfixable = Unset
    /\ upgrade_plan = Unset
    /\ replacement_suggestions = Unset
    /\ ai = AIIdle
    /\ console = <<>>
    /\ scan_calls = 0
    /\ classify_calls = 0
    /\ prompt_calls = <<>>
    /\ ai_log = <<>>
    /\ FunctionCall(call, MaxVulns, MaxScanVulns)
    /\ ret = Unset

FunctionNext ==
    \/ ApplyRunSnykScan
    \/ ApplyProcessSnykResults
    \/ ApplyCreateUpgradePrompt
    \/ ApplyCreateReplacementPrompt
    \/ CallGetAiResponse
    \/ AIFirstAttempt
    \/ AIRetryAttempt
    \/ ReturnGetAiResponse

FunctionSpec == FunctionInit /\ [][FunctionNext]_vars

(***************************************************************************)
(* Vocabulary of the properties.                                           *)
(***************************************************************************)
Returns(fn) == call.fn = fn /\ ret.type = "returned"

\* The records of a scan result in subproject order, then in-list order.
FlattenedRecords(data) ==
    CASE data.type = "dict" ->
           IF "vulnerabilities" \in DOMAIN data.value THEN data.value.vulnerabilities ELSE <<>>
      [] data.type = "list" ->
           Flatten([i \in 1..Len(data.value) |->
                      IF "vulnerabilities" \in DOMAIN data.value[i]
                      THEN data.value[i].vulnerabilities ELSE <<>>])
      [] OTHER -> <<>>

\* Number of elements of the record's upgrade path; a missing path has none.
PathLength(vuln) == IF "upgradePath" \in DOMAIN vuln THEN Len(vuln.upgradePath) ELSE 0
LongPath(vuln) == PathLength(vuln) > 1
ShortPath(vuln) == PathLength(vuln) < 2

Printed(tag) == \E i \in 1..Len(console) : console[i].line = tag
PrintedWith(tag, body) ==
    \E i \in 1..Len(console) : console[i].line = tag /\ console[i].body = body

NoUpgradeNotice == "No vulnerabilities with direct upgrade paths were found."
AllUpgradableNotice == "All found vulnerabilities seem to have a direct upgrade path."
ScanErrors == {"snyk command not found", "Snyk command failed",
               "Failed to decode Snyk's JSON output"}
FailureKinds == {"An unexpected error occurred", "Error on retry"}

\* main has called process_snyk_results and holds its two lists.
Classified == classify_calls > 0
QueriesFor(purpose) == {i \in 1..Len(ai_log) : ai_log[i].for = purpose}
PromptsBuiltBy(fn) == {i \in 1..Len(prompt_calls) : prompt_calls[i].fn = fn}
NoAiQuery == ai_log = <<>> /\ ai = AIIdle /\ prompt_calls = <<>>

(***************************************************************************)
(* Properties of the functions (checked under FunctionSpec).               *)
(***************************************************************************)

\* C1: whatever scan result process_snyk_results is given (a single
\* project or a list of subprojects), the pair it returns partitions the
\* flattened record sequence: fixable is exactly the subsequence of the
\* records whose upgradePath has more than one element, unfixable exactly
\* the subsequence of the others (missing or empty path included), both in
\* flattened input order, and together they hold every record once.
C1_ClassifierPartitions ==
    Returns("process_snyk_results") =>
        LET flat == FlattenedRecords(call.arg)
            short(v) == ~LongPath(v)
        IN  /\ ret.value[1] = SelectSeq(flat, LongPath)
            /\ ret.value[2] = SelectSeq(flat, short)
            /\ Len(ret.value[1]) + Len(ret.value[2]) = Len(flat)

\* C1 witness: two subprojects A = [v1, v2], B = [v3] were classified and
\* both lists came back non-empty.
C1_Witness ==
    /\ Returns("process_snyk_results")
    /\ call.arg.type = "list"
    /\ Len(call.arg.value) = 2
    /\ "vulnerabilities" \in DOMAIN call.arg.value[1]
    /\ "vulnerabilities" \in DOMAIN call.arg.value[2]
    /\ Len(call.arg.value[1].vulnerabilities) = 2
    /\ Len(call.arg.value[2].vulnerabilities) = 1
    /\ Len(ret.value[1]) = 2
    /\ Len(ret.value[2]) = 1
    /\ ret.value[1][1] # ret.value[1][2]

\* C2: one get_ai_response invocation makes at most 2 generate_content
\* calls, and makes the second only after the first failed with
\* ResourceExhausted: a first call that succeeded or failed otherwise is the
\* only call, and nothing follows the second call.
C2_AtMostOneRetry ==
    /\ Len(ai.calls) <= 2
    /\ Len(ai.calls) = 2 => ai.calls[1].kind = "ResourceExhausted"
    /\ ai.pc = "RetryAttempt" => Len(ai.calls) = 1 /\ ai.calls[1].kind = "ResourceExhausted"
    /\ (Len(ai.calls) >= 1 /\ ai.calls[1].kind # "ResourceExhausted") =>
           Len(ai.calls) = 1 /\ ai.pc = "returned"
    /\ Len(ai.calls) = 2 => ai.pc = "returned"

\* C2 witness: an invocation that made its second call, which failed too.
C2_Witness ==
    /\ Len(ai.calls) = 2
    /\ ai.calls[2].kind # "ok"
    /\ ai.pc = "returned"

\* C3 as stated: a get_ai_response invocation with a non-empty prompt ends
\* in one of four outcomes: first call ok (its text, 1 call); first call
\* failed otherwise than by rate limit (failure embedding the cause, 1
\* call); rate limit then ok (the second call's text, 2 calls); rate limit
\* on both calls (failure, 2 calls).
C3_FourOutcomes ==
    (Returns("get_ai_response") /\ call.arg.template # "") =>
        LET c == ai.calls
            r == ret.value
        IN  \/ /\ Len(c) = 1 /\ c[1].kind = "ok"
               /\ r = Returned("text", c[1].text)
            \/ /\ Len(c) = 1 /\ c[1].kind = "Exception"
               /\ r.kind \in FailureKinds /\ r.body = c[1].text
            \/ /\ Len(c) = 2 /\ c[1].kind = "ResourceExhausted" /\ c[2].kind = "ok"
               /\ r = Returned("text", c[2].text)
            \/ /\ Len(c) = 2 /\ c[1].kind = "ResourceExhausted"
               /\ c[2].kind = "ResourceExhausted"
               /\ r.kind \in FailureKinds

\* C3 amended: a get_ai_response invocation with a non-empty prompt ends in
\* exactly one of these outcomes: first call ok (its text, 1 call); first
\* call failed otherwise than by rate limit (failure embedding the cause, 1
\* call); rate limit then ok (the second call's text, 2 calls); rate limit
\* then any failure of the second call, a rate limit or not (failure
\* embedding the second call's cause, 2 calls).
C3_FiveOutcomes ==
    (Returns("get_ai_response") /\ call.arg.template # "") =>
        LET c == ai.calls
            r == ret.value
        IN  \/ /\ Len(c) = 1 /\ c[1].kind = "ok"
               /\ r = Returned("text", c[1].text)
            \/ /\ Len(c) = 1 /\ c[1].kind = "Exception"
               /\ r.kind \in FailureKinds /\ r.body = c[1].text
            \/ /\ Len(c) = 2 /\ c[1].kind = "ResourceExhausted" /\ c[2].kind = "ok"
               /\ r = Returned("text", c[2].text)
            \/ /\ Len(c) = 2 /\ c[1].kind = "ResourceExhausted"
               /\ c[2].kind \in {"ResourceExhausted", "Exception"}
               /\ r.kind \in FailureKinds /\ r.body = c[2].text

\* C3 witness: rate limit on the first call, a failure that is not a rate
\* limit on the second, and the failure description returned.
C3_Witness ==
    /\ Returns("get_ai_response")
    /\ call.arg.template # ""
    /\ Len(ai.calls) = 2
    /\ ai.calls[1].kind = "ResourceExhausted"
    /\ ai.calls[2].kind = "Exception"
    /\ ret.value.kind = "Error on retry"

\* C7: run_snyk_scan maps every scanner outcome to a result or a typed
\* failure.  A non-zero exit code with non-empty parsable output returns the
\* parsed output with no error, as exit code zero does; the tool-failed
\* error is printed exactly when the executable ran, the exit code is
\* non-zero and the output is empty; any other output that cannot be parsed
\* gives the malformed-output error; a missing executable gives the
\* tool-not-found error; whenever an error is printed the result is None.
C7_ScanOutcomes ==
    Returns("run_snyk_scan") =>
        LET in == call.arg
            parsable == in.stdout.text = "json"
            empty == in.stdout.text = ""
            toolFailed == in.found /\ in.returncode # 0 /\ empty
        IN  /\ (in.found /\ parsable) =>
                  /\ ret.value = in.stdout.of
                  /\ \A e \in ScanErrors : ~Printed(e)
            /\ Printed("Snyk command failed") <=> toolFailed
            /\ Printed("Failed to decode Snyk's JSON output") <=>
                  (in.found /\ ~parsable /\ ~toolFailed)
            /\ Printed("snyk command not found") <=> ~in.found
            /\ (\E e \in ScanErrors : Printed(e)) => ret.value = None
            /\ Cardinality({e \in ScanErrors : Printed(e)}) <= 1

\* C7 witness: the scanner exited non-zero with a report that holds
\* records, and the report was returned.
C7_Witness ==
    /\ Returns("run_snyk_scan")
    /\ call.arg.found
    /\ call.arg.returncode # 0
    /\ call.arg.stdout.text = "json"
    /\ ret.value.type = "dict"
    /\ FlattenedRecords(ret.value) # <<>>

\* C8: create_upgrade_prompt, given a record whose upgrade path has fewer
\* than 2 elements (missing, empty or single-element), still returns a
\* prompt, with "N/A" as that record's suggested upgrade.
C8_PlaceholderSubstituted ==
    Returns("create_upgrade_prompt") =>
        /\ ret.value.raised = "none"
        /\ Len(ret.value.value.details) = Len(call.arg)
        /\ \A i \in 1..Len(call.arg) :
              ShortPath(call.arg[i]) => ret.value.value.details[i].SuggestedUpgrade = "N/A"

(***************************************************************************)
(* Properties of main (checked under Spec).                                *)
(***************************************************************************)
\* The scanner delivered a scan result, and it holds no vulnerability.
ScanFoundNothing ==
    /\ scan_calls = 1
    /\ snyk_results.type \in {"dict", "list"}
    /\ FlattenedRecords(snyk_results) = <<>>

\* The result itself is empty: a dict without any key, a list without any
\* subproject.
EmptyDocument(data) ==
    \/ data.type = "dict" /\ DOMAIN data.value = {}
    \/ data.type = "list" /\ Len(data.value) = 0

BothListsEmptyNoQueryBothNotices ==
    /\ classify_calls = 1
    /\ fixable = <<>>
    /\ unfixable = <<>>
    /\ NoAiQuery
    /\ Printed(NoUpgradeNotice)
    /\ Printed(AllUpgradableNotice)

\* C4 as stated: when the scanner returns a scan result without any
\* vulnerability, main ends having classified both lists as empty, issued
\* no AI query and printed both notices.
C4_EmptyScanPrintsBothNotices ==
    (pc = "done" /\ ScanFoundNothing) => BothListsEmptyNoQueryBothNotices

\* C4 amended: when the scanner returns a scan result without any
\* vulnerability that is not itself empty (a dict with at least one key, a
\* list with at least one subproject), main ends having classified both
\* lists as empty, issued no AI query and printed both notices; when the
\* result is itself empty ({} or []), main returns right after the scan: no
\* classification, no AI query, neither notice.
C4_EmptyScanAmended ==
    (pc = "done" /\ ScanFoundNothing) =>
        IF EmptyDocument(snyk_results)
        THEN /\ classify_calls = 0
             /\ NoAiQuery
             /\ ~Printed(NoUpgradeNotice)
             /\ ~Printed(AllUpgradableNotice)
        ELSE BothListsEmptyNoQueryBothNotices

\* C4 witness: a monorepo result whose subprojects report nothing went
\* through classification and both notices were printed.
C4_Witness ==
    /\ pc = "done"
    /\ ScanFoundNothing
    /\ snyk_results.type = "list"
    /\ BothListsEmptyNoQueryBothNotices

\* C5: a fatal condition halts the run.  With the credential missing, or
\* the entered path empty or not a directory, main is over and never ran
\* the scanner (nor anything after it); when the scan failed (tool not
\* found, tool failed, malformed output), main is over without having
\* classified, built a prompt or issued an AI query.
C5_FatalConditionsHalt ==
    LET nothingAfterScan == classify_calls = 0 /\ NoAiQuery
        badPath == /\ project_path_to_scan # Unassigned
                   /\ (project_path_to_scan = "" \/ ~isdir(project_path_to_scan))
    IN  /\ (api_key = "" \/ badPath) =>
               pc = "done" /\ scan_calls = 0 /\ nothingAfterScan
        /\ (api_key = "") => project_path_to_scan = Unassigned
        /\ (\E e \in ScanErrors : Printed(e)) =>
               pc = "done" /\ scan_calls = 1 /\ nothingAfterScan
        /\ scan_calls <= 1

\* C5 witness: the scanner ran, failed, and main is over.
C5_Witness ==
    /\ pc = "done"
    /\ scan_calls = 1
    /\ Printed("Snyk command failed")
    /\ classify_calls = 0

\* C6: the two AI paths are independent.  get_ai_response always returns a
\* string (generated text or an error description) and main never aborts
\* on it: whenever main is past the upgrade-plan step with both lists
\* non-empty, whatever the upgrade-plan query returned, it goes on to the
\* replacement query, and at the end of the run both queries were made, in
\* that order, and the replacement result was printed.
C6_PathsIndependent ==
    /\ pc # "crashed"
    /\ pc \in {"upgrade_query", "replacement_query"} => ai.pc # "idle"
    /\ \A i \in 1..Len(ai_log) : ai_log[i].ret.kind \in FailureKinds \cup {"text"}
    /\ (pc = "done" /\ Classified /\ fixable # <<>> /\ unfixable # <<>>) =>
           /\ Len(ai_log) = 2
           /\ ai_log[1].for = "upgrade"
           /\ ai_log[2].for = "replacement"
           /\ upgrade_plan = ai_log[1].ret
           /\ replacement_suggestions = ai_log[2].ret
           /\ PrintedWith("upgrade_plan", ai_log[1].ret)
           /\ PrintedWith("replacement_suggestions", ai_log[2].ret)

\* C6 witness: the upgrade-plan query was rate limited on both attempts and
\* the replacement suggestions were still generated and printed.
C6_Witness ==
    /\ pc = "done"
    /\ Len(ai_log) = 2
    /\ ai_log[1].ret.kind = "Error on retry"
    /\ Len(ai_log[1].calls) = 2
    /\ ai_log[1].calls[2].kind = "ResourceExhausted"
    /\ ai_log[2].ret.kind = "text"
    /\ PrintedWith("replacement_suggestions", ai_log[2].ret)

\* C9: once main has classified, the upgrade-plan query is issued iff
\* fixable is non-empty and the replacement query iff unfixable is
\* non-empty; for an empty list the fixed notice is printed instead and no
\* prompt is built; the upgrade-plan step is over before the replacement
\* step starts, and a run makes at most 2 get_ai_response invocations.
C9_QueriesFollowTheLists ==
    LET running == IF ai.pc = "idle" THEN 0 ELSE 1
        upgradeDone == pc \in {"replacement", "replacement_query", "done"}
        replacementDone == pc = "done"
    IN  /\ Len(ai_log) + running <= 2
        /\ Cardinality(QueriesFor("upgrade")) <= 1
        /\ Cardinality(QueriesFor("replacement")) <= 1
        /\ ~Classified => NoAiQuery
        /\ (Classified /\ upgradeDone) =>
              /\ QueriesFor("upgrade") # {} <=> fixable # <<>>
              /\ PromptsBuiltBy("create_upgrade_prompt") # {} <=> fixable # <<>>
              /\ Printed(NoUpgradeNotice) <=> fixable = <<>>
        /\ (Classified /\ replacementDone) =>
              /\ QueriesFor("replacement") # {} <=> unfixable # <<>>
              /\ PromptsBuiltBy("create_replacement_prompt") # {} <=> unfixable # <<>>
              /\ Printed(AllUpgradableNotice) <=> unfixable = <<>>
        /\ ~upgradeDone =>
              /\ QueriesFor("replacement") = {}
              /\ PromptsBuiltBy("create_replacement_prompt") = {}
              /\ ~Printed(AllUpgradableNotice)
              /\ ai.pc # "idle" => ai.prompt.template = "upgrade plan"
        /\ pc = "replacement_query" =>
              /\ ai.prompt.template = "replacement suggestions"
              /\ \A i \in QueriesFor("upgrade") : i = 1

\* C9 witness: nothing was fixable, so the notice replaced the upgrade-plan
\* query, and the one query of the run was the replacement query.
C9_Witness ==
    /\ pc = "done"
    /\ Classified
    /\ fixable = <<>>
    /\ unfixable # <<>>
    /\ Printed(NoUpgradeNotice)
    /\ Len(ai_log) = 1
    /\ ai_log[1].for = "replacement"

\* C10: every list main passes to create_upgrade_prompt is the fixable
\* list of process_snyk_results, every record of it has an upgradePath of
\* at least 2 elements, so the index-1 access never fails and main never
\* crashes in create_upgrade_prompt.
C10_OnlyFixableReachUpgradePrompt ==
    /\ pc # "crashed"
    /\ \A i \in 1..Len(prompt_calls) :
          prompt_calls[i].fn = "create_upgrade_prompt" =>
              /\ prompt_calls[i].arg = fixable
              /\ prompt_calls[i].arg = SelectSeq(FlattenedRecords(snyk_results), LongPath)
              /\ \A j \in 1..Len(prompt_calls[i].arg) :
                    /\ PathLength(prompt_calls[i].arg[j]) >= 2
                    /\ SuggestedUpgrade(prompt_calls[i].arg[j]).raised = "none"

\* C10 witness: a scan with fixable and unfixable records, and the upgrade
\* prompt built from the two fixable ones.
C10_Witness ==
    /\ PromptsBuiltBy("create_upgrade_prompt") # {}
    /\ Len(prompt_calls[1].arg) = 2
    /\ pc = "upgrade_query"
    /\ ai.prompt.template = "upgrade plan"
    /\ Len(ai.prompt.details) = 2

====
